---------------------------- MODULE Spec2Model ----------------------------
(***************************************************************************)
(* A model of the feature-engineering pipeline of the Crypto repository:   *)
(*   src/src/a1_load_crypto_prices.py  CryptoPriceLoader                   *)
(*   src/src/a2_load_crypto_news.py    CryptoNewsLoader                    *)
(*   src/src/a3_data_engineering.py    the table transformations           *)
(*                                                                         *)
(* Every function is a synchronous table transformation.  A call is one    *)
(* action: `call` holds the arguments as the caller passed them (the       *)
(* table included, as it was at the time of the call), `df` is the table   *)
(* the function works on and returns (for the in-place functions this is   *)
(* the caller's own table object after the call), and `pc` tells whether   *)
(* the call is still to be made ("ready"), has returned ("done") or has    *)
(* raised an exception ("raised").                                         *)
(*                                                                         *)
(* Floating-point cells are records [k, n, d]: k = "fin" is the rational   *)
(* n/d in lowest terms with d > 0, k = "nan", "inf", "ninf" are the IEEE   *)
(* specials.  Arithmetic is exact (no rounding), the specials follow IEEE. *)
(* A null cell of a table is NaN, as in pandas.                            *)
(***************************************************************************)
EXTENDS Integers, Sequences, FiniteSets, TLC

VARIABLES pc, call, df, df_cluster

vars == <<pc, call, df, df_cluster>>

---------------------------------------------------------------------------
(* Floating point values.                                                  *)

Abs(x) == IF x < 0 THEN -x ELSE x

RECURSIVE GCD(_, _)
GCD(a, b) == IF b = 0 THEN a ELSE GCD(b, a % b)

NaN  == [k |-> "nan",  n |-> 0, d |-> 1]
PInf == [k |-> "inf",  n |-> 0, d |-> 1]
NInf == [k |-> "ninf", n |-> 0, d |-> 1]

\* the rational n/d (d # 0) in lowest terms
Fin(n, d) ==
  LET g == GCD(Abs(n), Abs(d))
      s == IF d < 0 THEN -1 ELSE 1
  IN  [k |-> "fin", n |-> (s * n) \div g, d |-> (s * d) \div g]

Num(x) == Fin(x, 1)

IsNull(a) == a.k = "nan"
IsFinite(a) == a.k = "fin"
Sign(a) == CASE a.k = "inf"  -> 1
             [] a.k = "ninf" -> -1
             [] a.k = "fin"  -> (IF a.n > 0 THEN 1 ELSE IF a.n < 0 THEN -1 ELSE 0)
             [] OTHER        -> 0
InfOf(s) == IF s > 0 THEN PInf ELSE NInf

FNeg(a) == CASE a.k = "fin"  -> Fin(-a.n, a.d)
             [] a.k = "inf"  -> NInf
             [] a.k = "ninf" -> PInf
             [] OTHER        -> NaN

FAdd(a, b) ==
  CASE a.k = "nan" \/ b.k = "nan"   -> NaN
    [] a.k = "fin" /\ b.k = "fin"   -> Fin(a.n * b.d + b.n * a.d, a.d * b.d)
    [] a.k = "fin"                  -> b
    [] b.k = "fin"                  -> a
    [] a.k = b.k                    -> a
    [] OTHER                        -> NaN      \* inf + -inf

FSub(a, b) == FAdd(a, FNeg(b))

FMul(a, b) ==
  CASE a.k = "nan" \/ b.k = "nan"   -> NaN
    [] a.k = "fin" /\ b.k = "fin"   -> Fin(a.n * b.n, a.d * b.d)
    [] Sign(a) * Sign(b) = 0        -> NaN      \* 0 * inf
    [] OTHER                        -> InfOf(Sign(a) * Sign(b))

\* IEEE division: x/0 is +-inf for x # 0, 0/0 is NaN; numpy warns, never raises
FDiv(a, b) ==
  CASE a.k = "nan" \/ b.k = "nan"   -> NaN
    [] a.k = "fin" /\ b.k = "fin"   ->
         IF b.n # 0 THEN Fin(a.n * b.d, a.d * b.n)
         ELSE IF a.n = 0 THEN NaN ELSE InfOf(Sign(a))
    [] a.k = "fin"                  -> Num(0)   \* x / inf
    [] b.k = "fin"                  -> InfOf(Sign(a) * (IF Sign(b) < 0 THEN -1 ELSE 1))
    [] OTHER                        -> NaN      \* inf / inf

\* a <= b on floats: false as soon as one side is NaN
FLeq(a, b) ==
  CASE a.k = "nan" \/ b.k = "nan"   -> FALSE
    [] a.k = "fin" /\ b.k = "fin"   -> a.n * b.d <= b.n * a.d
    [] a.k = "ninf" \/ b.k = "inf"  -> TRUE
    [] OTHER                        -> FALSE

\* the == of floats: NaN equals nothing, not even itself
FEq(a, b) == a.k # "nan" /\ b.k # "nan" /\ a = b

---------------------------------------------------------------------------
(* Sequences as table columns.                                             *)

Range(s) == {s[i] : i \in 1..Len(s)}

\* f itself.  TLC evaluates a function expression [x \in S |-> e] anew at each
\* application; comparing it makes TLC evaluate it once, as a whole.
Eval(f) == IF f = f THEN f ELSE f

RECURSIVE Unique(_)
\* Series.unique(): the distinct values in order of first appearance
Unique(s) ==
  IF s = <<>> THEN <<>>
  ELSE LET u == Unique(SubSeq(s, 1, Len(s) - 1))
           x == s[Len(s)]
       IN  IF x \in Range(u) THEN u ELSE Append(u, x)

RECURSIVE KeyLess(_, _)
\* a < b for tuples of integers of one length, compared column by column
KeyLess(a, b) ==
  /\ a # <<>>
  /\ \/ Head(a) < Head(b)
     \/ Head(a) = Head(b) /\ KeyLess(Tail(a), Tail(b))

\* row i comes before row j in ascending order of the keys.  Rows with equal
\* keys keep their relative order (pandas' default quicksort leaves their
\* order open; nothing below depends on it).
ComesBefore(i, j, keys) ==
  KeyLess(keys[i], keys[j]) \/ (keys[i] = keys[j] /\ i < j)

\* the place each of the rows 1..m takes when sort_values orders them by keys
SortRank(m, keys) ==
  Eval([i \in 1..m |-> 1 + Cardinality({j \in 1..m : ComesBefore(j, i, keys)})])

\* the rows of s, row i put at place rank[i]
PlaceRows(s, rank) ==
  Eval([k \in 1..Len(s) |-> s[CHOOSE i \in 1..Len(s) : rank[i] = k]])

\* DataFrame.sort_values: the rows of s in ascending order of keys
SortValues(s, keys) == PlaceRows(s, SortRank(Len(s), keys))

\* df[c] = v on one row: the column is added, or overwritten when it exists
SetCol(r, c, v) == Eval([x \in (DOMAIN r) \cup {c} |-> IF x = c THEN v ELSE r[x]])

\* DataFrame.drop(columns = cs) on one row
DropCols(r, cs) == Eval([x \in (DOMAIN r) \ cs |-> r[x]])

\* the rows of table t that belong to the group (coin) of row i, as row indices
\* in table order: what groupby(col_group) hands to transform
GroupOf(t, i) == SelectSeq([j \in 1..Len(t) |-> j], LAMBDA j : t[j].coin = t[i].coin)

\* the place of row i within its group
GroupPos(t, i) == Cardinality({j \in 1..i : t[j].coin = t[i].coin})

SeqMax(s, lo, hi) == CHOOSE x \in {s[j] : j \in lo..hi} : \A j \in lo..hi : s[j] <= x
SeqMin(s, lo, hi) == CHOOSE x \in {s[j] : j \in lo..hi} : \A j \in lo..hi : x <= s[j]

---------------------------------------------------------------------------
(* Before a call: no arguments, no table.                                  *)

NoCall == [fn |-> "none"]

Init ==
  /\ pc = "ready"
  /\ call = NoCall
  /\ df = <<>>
  /\ df_cluster = <<>>

---------------------------------------------------------------------------
(* a3_data_engineering.aggregate_support_levels                            *)
(*                                                                         *)
(* A row of the input table: [day, coin, price, local_min, local_max].     *)
(* Prices are positive integers.  df_cluster is the table of the flagged   *)
(* rows with their levels; the model keeps its price column beside the     *)
(* four columns line 74 selects, the merge does not read it.               *)

\* thres = 0.025, the default of aggregate_support_levels, as ThresNum/ThresDen
ThresNum == 1
ThresDen == 40

\* bounds of the tables handed to aggregate_support_levels
MaxLevelRows == 3
BarsPerDay == 2
LevelCoins == {"BTC", "ETH"}
LevelPrices == {100, 102, 104, 150}
\* (coin, price, <<local_min, local_max>>) of a row: a first coin at every
\* price, flagged either way, both ways or not at all, and a second coin
LevelKinds ==
  ({"BTC"} \X LevelPrices \X {<<1, 0>>, <<0, 1>>})
    \cup ({"BTC"} \X {100} \X {<<0, 0>>, <<1, 1>>})
    \cup ({"ETH"} \X {100, 102} \X {<<0, 1>>})
    \cup ({"ETH"} \X {150} \X {<<0, 0>>})

LevelRow(i, kind) ==
  [day |-> (i + BarsPerDay - 1) \div BarsPerDay, coin |-> kind[1], price |-> kind[2],
   local_min |-> kind[3][1], local_max |-> kind[3][2]]

LevelTable(m, kind) == [i \in 1..m |-> LevelRow(i, kind[i])]

\* line 58: the rows flagged as local minimum or maximum
IsLocal(r) == r.local_min = 1 \/ r.local_max = 1

\* line 69: abs(v_i - v_i2) / v_i <= thres, for a price v_i > 0
WithinThres(v_i, v_i2) == Abs(v_i - v_i2) * ThresDen <= ThresNum * v_i

\* a row that is cut loose from its left neighbour's cluster but takes the
\* neighbour's initial id instead of the id the neighbour carries now
MergeIntoInitialId(level, i) == [level EXCEPT ![i + 1] = i]

\* line 70: row i+1 takes the cluster id row i carries at this moment
MergeInto(level, i) == [level EXCEPT ![i + 1] = level[i]]

RECURSIVE ScanLevels(_, _, _)
\* lines 66-70: the pass over the adjacent pairs (i, i+1), i = 1 .. n-1
ScanLevels(price, level, i) ==
  IF i >= Len(price) THEN level
  ELSE ScanLevels(price,
                  IF WithinThres(price[i], price[i + 1]) THEN MergeInto(level, i) ELSE level,
                  i + 1)

\* lines 64-70: every row starts as its own cluster 1..n, then the scan
ClusterIds(price) == ScanLevels(price, [i \in 1..Len(price) |-> i], 1)

\* line 71: the median of the ascending prices s
Median(s) ==
  LET m == Len(s)
  IN  IF m % 2 = 1 THEN Num(s[(m + 1) \div 2]) ELSE Fin(s[m \div 2] + s[m \div 2 + 1], 2)

\* lines 62-72: the flagged rows of coin g in ascending price, with the
\* cluster id, the cluster's median price and its number of rows
ClusterCoin(df_locals, g) ==
  LET rows  == SelectSeq(df_locals, LAMBDA r : r.coin = g)
      df_g  == SortValues(rows, [i \in 1..Len(rows) |-> <<rows[i].price>>])
      price == [i \in 1..Len(df_g) |-> df_g[i].price]
      level == ClusterIds(price)
  IN  [i \in 1..Len(df_g) |->
         LET of_l == {j \in 1..Len(df_g) : level[j] = level[i]}
             lo   == CHOOSE j \in of_l : \A k \in of_l : j <= k
             \* a cluster is a run of adjacent rows of the ascending table
             ps   == [j \in 1..Cardinality(of_l) |-> price[lo + j - 1]]
         IN  [day |-> df_g[i].day, coin |-> g, price |-> price[i],
              level |-> level[i], price_level |-> Median(ps),
              counter_level |-> Cardinality(of_l)]]

RECURSIVE ClusterAll(_, _)
\* lines 60-74: the per-coin tables, concatenated in the order of the coins
ClusterAll(df_locals, coins) ==
  IF coins = <<>> THEN <<>>
  ELSE ClusterCoin(df_locals, Head(coins)) \o ClusterAll(df_locals, Tail(coins))

\* line 75, one left row: a result row per matching (day, coin) row of the
\* right table, or one row of nulls when nothing matches
MergeRow(r, right) ==
  LET hit == SelectSeq(right, LAMBDA c : c.day = r.day /\ c.coin = r.coin)
      out(l, p, n) == [day |-> r.day, coin |-> r.coin, price |-> r.price,
                       local_min |-> r.local_min, local_max |-> r.local_max,
                       level |-> l, price_level |-> p, counter_level |-> n]
  IN  IF hit = <<>> THEN <<out(NaN, NaN, NaN)>>
      ELSE [j \in 1..Len(hit) |->
              out(Num(hit[j].level), hit[j].price_level, Num(hit[j].counter_level))]

RECURSIVE MergeLeft(_, _)
\* line 75: df.merge(df_cluster, on = ['day', col_group], how = 'left')
MergeLeft(left, right) ==
  IF left = <<>> THEN <<>>
  ELSE MergeRow(Head(left), right) \o MergeLeft(Tail(left), right)

\* line 58: df_locals
Locals(t) == SelectSeq(t, IsLocal)

\* lines 60-74: df_cluster, the coins taken in order of first appearance
ClusterLocals(df_locals) ==
  ClusterAll(df_locals, Unique([i \in 1..Len(df_locals) |-> df_locals[i].coin]))

\* aggregate_support_levels(df, 'local_min', 'local_max', 'price', 'coin')
\* on a table with at least one flagged row
AggregateSupportLevels ==
  /\ pc = "ready"
  /\ \E m \in 0..MaxLevelRows :
     \E kind \in [1..m -> LevelKinds] :
       LET t == LevelTable(m, kind)
       IN  /\ Locals(t) # <<>>
           /\ call' = [fn |-> "aggregate_support_levels", df |-> t]
           /\ df_cluster' = ClusterLocals(Locals(t))
           /\ df' = MergeLeft(t, ClusterLocals(Locals(t)))
           /\ pc' = "done"

\* aggregate_support_levels on a table without a flagged row: the loop of
\* line 60 never runs, df_cluster is still the empty pd.DataFrame() of line
\* 52, which has no column 'day', and the merge of line 75 raises KeyError
AggregateSupportLevelsNoLocals ==
  /\ pc = "ready"
  /\ \E m \in 0..MaxLevelRows :
     \E kind \in [1..m -> LevelKinds] :
       LET t == LevelTable(m, kind)
       IN  /\ Locals(t) = <<>>
           /\ call' = [fn |-> "aggregate_support_levels", df |-> t]
           /\ pc' = "raised"
  /\ UNCHANGED <<df, df_cluster>>

NextLevels == AggregateSupportLevels \/ AggregateSupportLevelsNoLocals

SpecLevels == Init /\ [][NextLevels]_vars

\* the rows of df_cluster of coin g, in the ascending order of line 62
ClusterRows(g) == SelectSeq(df_cluster, LAMBDA r : r.coin = g)

\* the input columns of a result row
InputColumns(r) ==
  [day |-> r.day, coin |-> r.coin, price |-> r.price,
   local_min |-> r.local_min, local_max |-> r.local_max]

(* C1: after aggregate_support_levels has returned, for every coin the     *)
(* flagged rows stand in df_cluster in ascending price, all of them, and   *)
(* two rows adjacent in that order carry the same cluster id if and only   *)
(* if their relative gap |p[i]-p[i+1]|/p[i] is at most thres.              *)
C1_AdjacentSameClusterIffWithinThres ==
  (pc = "done" /\ call.fn = "aggregate_support_levels") =>
    \A g \in LevelCoins :
      LET rows == ClusterRows(g)
      IN  /\ Len(rows) = Len(SelectSeq(call.df, LAMBDA r : r.coin = g /\ IsLocal(r)))
          /\ \A i \in 1..(Len(rows) - 1) :
               /\ rows[i].price <= rows[i + 1].price
               /\ (rows[i].level = rows[i + 1].level)
                    <=> (ThresDen * Abs(rows[i].price - rows[i + 1].price)
                           <= ThresNum * rows[i].price)

\* a chain: three rows of one coin adjacent in price order in one cluster,
\* the first and the last further apart than the threshold (100, 102, 104)
C1_Witness_Chain ==
  /\ pc = "done"
  /\ call.fn = "aggregate_support_levels"
  /\ \E g \in LevelCoins :
       LET rows == ClusterRows(g)
       IN  \E i \in 1..(Len(rows) - 2) :
             /\ rows[i].level = rows[i + 1].level
             /\ rows[i].level = rows[i + 2].level
             /\ ThresDen * Abs(rows[i].price - rows[i + 2].price) > ThresNum * rows[i].price

(* C10: aggregate_support_levels returns, and the table it returns holds   *)
(* every row of its input; a row whose (day, coin) carries no flagged      *)
(* extremum is there with null level, price_level and counter_level, also  *)
(* when no row of the table is flagged at all.                             *)
C10_ReturnsEveryRow ==
  (call.fn = "aggregate_support_levels") =>
    /\ pc = "done"
    /\ \A i \in 1..Len(call.df) :
         \E j \in 1..Len(df) :
           /\ InputColumns(df[j]) = call.df[i]
           /\ (\A k \in 1..Len(call.df) :
                 IsLocal(call.df[k]) =>
                   ~(call.df[k].day = call.df[i].day /\ call.df[k].coin = call.df[i].coin))
              => (IsNull(df[j].level) /\ IsNull(df[j].price_level)
                    /\ IsNull(df[j].counter_level))

---------------------------------------------------------------------------
(* a3_data_engineering.define_local_min_max, define_local_min_max2         *)
(*                                                                         *)
(* A row of the table: [timestamp, coin, price, avg_price_5], the two      *)
(* numeric columns holding integers.  Both functions sort the caller's     *)
(* table in place and add the columns local_max and local_min (suffix '').*)

\* bounds of the tables handed to the extrema detectors
MaxBars == 3
MaxWindow == 3
PriceValues == {1, 2}
PriceCols == {"price", "avg_price_5"}
\* the series of a second coin in the table, the same in both price columns
OtherSeries == {<<>>, <<1>>, <<2>>, <<2, 1>>}

\* the bars of one coin at timestamps 1..m
CoinBars(g, m, p, a) ==
  [i \in 1..m |-> [timestamp |-> i, coin |-> g, price |-> p[i], avg_price_5 |-> a[i]]]

Reverse(s) == [i \in 1..Len(s) |-> s[Len(s) + 1 - i]]

\* the caller's table: the bars of two coins, in time order or reversed
TwoCoinBars(m, p, a, q, rev) ==
  IF rev THEN Reverse(CoinBars("BTC", m, p, a) \o CoinBars("ETH", Len(q), q, q))
  ELSE CoinBars("BTC", m, p, a) \o CoinBars("ETH", Len(q), q, q)

\* the same rolling aggregate with min_periods = 1: an incomplete window
\* yields the aggregate of the rows it has
CenteredRollingPartial(s, w, k, pickMax) ==
  LET offset == (w - 1) \div 2
      hi == IF k + offset > Len(s) THEN Len(s) ELSE k + offset
      lo == IF k + offset - w + 1 < 1 THEN 1 ELSE k + offset - w + 1
  IN  IF hi - lo + 1 < 1 THEN NaN
      ELSE Num(IF pickMax THEN SeqMax(s, lo, hi) ELSE SeqMin(s, lo, hi))

\* d.rolling(window = w, min_periods = w, center = True).max() / .min() at
\* place k of the series s: pandas' fixed window ends offset = (w-1)//2 rows
\* behind k and starts w-1 rows before its end, is clipped to the series, and
\* yields NaN when fewer than min_periods rows are left
CenteredRolling(s, w, k, pickMax) ==
  LET offset == (w - 1) \div 2
      hi == IF k + offset > Len(s) THEN Len(s) ELSE k + offset
      lo == IF k + offset - w + 1 < 1 THEN 1 ELSE k + offset - w + 1
  IN  IF hi - lo + 1 < w THEN NaN
      ELSE Num(IF pickMax THEN SeqMax(s, lo, hi) ELSE SeqMin(s, lo, hi))

\* df.groupby(col_group)[col].transform(lambda d: d.rolling(...).max()) at row i
GroupRolling(t, col, w, i, pickMax) ==
  LET grp == GroupOf(t, i)
  IN  CenteredRolling([j \in 1..Len(grp) |-> t[grp[j]][col]], w, GroupPos(t, i), pickMax)

\* lambda x: 1 * (x[0] == x[1]): 1 when the value equals the aggregate, 0
\* otherwise, also when the aggregate is NaN
EqualFlag(v, agg) == IF FEq(Num(v), agg) THEN 1 ELSE 0

\* df.sort_values(by = col_sort), col_sort = 'timestamp'
SortByTime(t) == SortValues(t, [i \in 1..Len(t) |-> <<t[i].timestamp>>])

\* lines 32-35 on the sorted table
LocalMinMaxSorted(sorted, col_price, w) ==
  [i \in 1..Len(sorted) |->
         SetCol(SetCol(sorted[i],
           "local_max", EqualFlag(sorted[i][col_price],
                                  GroupRolling(sorted, col_price, w, i, TRUE))),
           "local_min", EqualFlag(sorted[i][col_price],
                                  GroupRolling(sorted, "avg_price_5", w, i, FALSE)))]

\* lines 44-47 on the sorted table
LocalMinMax2Sorted(sorted, col_price_min, col_price_max, w) ==
  [i \in 1..Len(sorted) |->
         SetCol(SetCol(sorted[i],
           "local_max", EqualFlag(sorted[i][col_price_max],
                                  GroupRolling(sorted, col_price_max, w, i, TRUE))),
           "local_min", EqualFlag(sorted[i][col_price_min],
                                  GroupRolling(sorted, col_price_min, w, i, FALSE)))]

\* lines 31-35: the sorted table with local_max from the rolling maximum of
\* col_price and local_min from the rolling minimum of 'avg_price_5'
LocalMinMax(t, col_price, w) == LocalMinMaxSorted(SortByTime(t), col_price, w)

\* lines 43-47: the sorted table with local_max from col_price_max and
\* local_min from col_price_min
LocalMinMax2(t, col_price_min, col_price_max, w) ==
  LocalMinMax2Sorted(SortByTime(t), col_price_min, col_price_max, w)

\* define_local_min_max(df, col_price, period_window_min_max = w)
DefineLocalMinMax ==
  /\ pc = "ready"
  /\ \E m \in 0..MaxBars, w \in 1..MaxWindow, rev \in BOOLEAN, col_price \in PriceCols :
     \E p \in [1..m -> PriceValues], a \in [1..m -> PriceValues], q \in OtherSeries :
       LET t == TwoCoinBars(m, p, a, q, rev)
       IN  /\ call' = [fn |-> "define_local_min_max", df |-> t, col_price |-> col_price,
                       period_window_min_max |-> w]
           /\ df' = LocalMinMax(t, col_price, w)
           /\ pc' = "done"
  /\ UNCHANGED df_cluster

\* define_local_min_max2(df, col_price_min, col_price_max, period_window_min_max = w)
DefineLocalMinMax2 ==
  /\ pc = "ready"
  /\ \E m \in 0..MaxBars, w \in 1..MaxWindow, rev \in BOOLEAN,
        col_price_min \in PriceCols, col_price_max \in PriceCols :
     \E p \in [1..m -> PriceValues], a \in [1..m -> PriceValues], q \in OtherSeries :
       LET t == TwoCoinBars(m, p, a, q, rev)
       IN  /\ call' = [fn |-> "define_local_min_max2", df |-> t,
                       col_price_min |-> col_price_min, col_price_max |-> col_price_max,
                       period_window_min_max |-> w]
           /\ df' = LocalMinMax2(t, col_price_min, col_price_max, w)
           /\ pc' = "done"
  /\ UNCHANGED df_cluster

NextExtrema == DefineLocalMinMax \/ DefineLocalMinMax2

SpecExtrema == Init /\ [][NextExtrema]_vars

\* the place of row i of df in the time-sorted series of its coin, the length
\* of that series, and the rows of the centered window of w rows around row i
TimeRank(i) ==
  Cardinality({j \in 1..Len(df) : df[j].coin = df[i].coin /\ df[j].timestamp <= df[i].timestamp})
SeriesLen(i) == Cardinality({j \in 1..Len(df) : df[j].coin = df[i].coin})
HasFullWindow(i, w) ==
  /\ TimeRank(i) - (w \div 2) >= 1
  /\ TimeRank(i) + ((w - 1) \div 2) <= SeriesLen(i)
WindowRows(i, w) ==
  {j \in 1..Len(df) :
     /\ df[j].coin = df[i].coin
     /\ TimeRank(j) >= TimeRank(i) - (w \div 2)
     /\ TimeRank(j) <= TimeRank(i) + ((w - 1) \div 2)}

(* C5: after define_local_min_max, for every choice of col_price, a row's  *)
(* local_min is 1 if and only if its col_price value equals the centered   *)
(* rolling minimum of that same column over the window of its coin, and    *)
(* its local_max is 1 if and only if it equals the centered rolling        *)
(* maximum of that same column.                                            *)
C5_FlagsFromSameColumn ==
  (pc = "done" /\ call.fn = "define_local_min_max") =>
    LET w == call.period_window_min_max
        c == call.col_price
    IN  \A i \in 1..Len(df) :
          /\ (df[i].local_min = 1) <=>
               (HasFullWindow(i, w) /\ \A j \in WindowRows(i, w) : df[i][c] <= df[j][c])
          /\ (df[i].local_max = 1) <=>
               (HasFullWindow(i, w) /\ \A j \in WindowRows(i, w) : df[i][c] >= df[j][c])

(* C6: after either extrema detector, every flag is 0 or 1, and a row      *)
(* without a full centered window of period_window_min_max rows of its own *)
(* coin around it has local_max = 0 and local_min = 0.                     *)
C6_EdgeRowsUnflagged ==
  (pc = "done" /\ call.fn \in {"define_local_min_max", "define_local_min_max2"}) =>
    /\ Len(df) = Len(call.df)
    /\ \A i \in 1..Len(df) :
         /\ df[i].local_max \in {0, 1}
         /\ df[i].local_min \in {0, 1}
         /\ ~HasFullWindow(i, call.period_window_min_max) =>
              (df[i].local_max = 0 /\ df[i].local_min = 0)

\* a coin with a flagged maximum in the middle of its series, its first row
\* holding the same value and left unflagged for want of a full window, while
\* a row of the other coin lies in the table
C6_Witness_EdgeAtMaximum ==
  /\ pc = "done"
  /\ call.fn = "define_local_min_max2"
  /\ \E i, j, o \in 1..Len(df) :
       /\ df[i].coin = df[j].coin
       /\ df[o].coin # df[i].coin
       /\ TimeRank(i) = 1
       /\ ~HasFullWindow(i, call.period_window_min_max)
       /\ df[j].local_max = 1
       /\ df[i][call.col_price_max] = df[j][call.col_price_max]
       /\ df[i].local_max = 0
       /\ df[i].local_min = 0

---------------------------------------------------------------------------
(* a3_data_engineering.calculate_momentum                                  *)
(*                                                                         *)
(* A row of the table holds the four reference prices in the columns       *)
(* price_1 .. price_4, as integers; a price of 0 is the case of interest.  *)

\* bounds of the tables handed to calculate_momentum
MaxMomentumRows == 1
MomentumPrices == {0, 90, 95, 100}

RECURSIVE SumSkipNa(_)
\* DataFrame.sum(axis = 1) over the cells s of one row: skipna = True is the
\* default, a NaN cell is left out of the sum, a row of NaN cells sums to 0
SumSkipNa(s) ==
  IF s = <<>> THEN Num(0)
  ELSE IF IsNull(s[Len(s)]) THEN SumSkipNa(SubSeq(s, 1, Len(s) - 1))
  ELSE FAdd(SumSkipNa(SubSeq(s, 1, Len(s) - 1)), s[Len(s)])

\* lambda x: (x[0] - x[1]) / x[1] on numpy floats: division by zero gives
\* inf or NaN and a warning, no exception
Momentum(x0, x1) == FDiv(FSub(Num(x0), Num(x1)), Num(x1))

\* lines 80-86 on one row
MomentumRow(r, col_new, c1, c2, c3, c4) ==
  LET r1 == SetCol(r,  "momentum_1_2", Momentum(r[c1], r[c2]))
      r2 == SetCol(r1, "momentum_2_3", Momentum(r[c2], r[c3]))
      r3 == SetCol(r2, "momentum_3_4", Momentum(r[c3], r[c4]))
      r4 == SetCol(r3, col_new,
                   SumSkipNa(<<r3["momentum_1_2"], r3["momentum_2_3"], r3["momentum_3_4"]>>))
  IN  DropCols(r4, {"momentum_1_2", "momentum_2_3", "momentum_3_4"})

\* calculate_momentum(df, 'momentum', 'price_1', 'price_2', 'price_3', 'price_4')
CalculateMomentum ==
  /\ pc = "ready"
  /\ \E m \in 0..MaxMomentumRows :
     \E p1 \in [1..m -> MomentumPrices], p2 \in [1..m -> MomentumPrices],
        p3 \in [1..m -> MomentumPrices], p4 \in [1..m -> MomentumPrices] :
       LET t == [i \in 1..m |-> [price_1 |-> p1[i], price_2 |-> p2[i],
                                 price_3 |-> p3[i], price_4 |-> p4[i]]]
       IN  /\ call' = [fn |-> "calculate_momentum", df |-> t, col_new |-> "momentum"]
           /\ df' = [i \in 1..m |->
                       MomentumRow(t[i], "momentum", "price_1", "price_2", "price_3", "price_4")]
           /\ pc' = "done"
  /\ UNCHANGED df_cluster

NextMomentum == CalculateMomentum

SpecMomentum == Init /\ [][NextMomentum]_vars

(* C4: after calculate_momentum every row's score is                       *)
(* (p1-p2)/p2 + (p2-p3)/p3 + (p3-p4)/p4, the three intermediate columns    *)
(* are gone, and when one of the denominators p2, p3, p4 is zero the score *)
(* is NaN or infinite, never a finite number.                              *)
C4_ZeroDenominatorPropagates ==
  (pc = "done" /\ call.fn = "calculate_momentum") =>
    \A i \in 1..Len(df) :
      LET r == df[i]
          term(a, b) == FDiv(FSub(Num(a), Num(b)), Num(b))
      IN  /\ DOMAIN r = {"price_1", "price_2", "price_3", "price_4", "momentum"}
          /\ (r.price_2 # 0 /\ r.price_3 # 0 /\ r.price_4 # 0) =>
               r.momentum = FAdd(FAdd(term(r.price_1, r.price_2), term(r.price_2, r.price_3)),
                                 term(r.price_3, r.price_4))
          /\ (r.price_2 = 0 \/ r.price_3 = 0 \/ r.price_4 = 0) => ~IsFinite(r.momentum)

---------------------------------------------------------------------------
(* a3_data_engineering.weighted_average                                    *)
(*                                                                         *)
(* A row of the caller's table: [timestamp, coin, price, volume] with      *)
(* integer cells, and whatever further columns the caller's table has;     *)
(* their cells are floats.  The function works on the caller's table in    *)
(* place.                                                                  *)

\* bounds of the tables handed to weighted_average
MaxAvgBars == 2
MaxAvgOtherBars == 1
MaxAvgWindow == 2
VolumeValues == {0, 1}
\* columns a caller's table may have beside timestamp, coin, price, volume
CallerCols == {"note", "nominator", "avg_price_2"}

AvgBars(g, m, p, v, extra) ==
  [i \in 1..m |->
     [c \in {"timestamp", "coin", "price", "volume"} \cup extra |->
        CASE c = "timestamp" -> i
          [] c = "coin"      -> g
          [] c = "price"     -> p[i]
          [] c = "volume"    -> v[i]
          [] OTHER           -> Num(7)]]

RECURSIVE SeqSum(_, _, _)
SeqSum(s, lo, hi) == IF lo > hi THEN 0 ELSE s[hi] + SeqSum(s, lo, hi - 1)

\* d.rolling(window = w, min_periods = 1, center = False).sum() at place k of
\* the series s of integers: the sum of the up to w values ending at k
RollingSum(s, w, k) == SeqSum(s, IF k - w + 1 < 1 THEN 1 ELSE k - w + 1, k)

\* df.groupby(col_group)[col].transform(lambda d: d.rolling(...).sum()) at row i
GroupRollingSum(t, col, w, i) ==
  LET grp == GroupOf(t, i)
  IN  RollingSum([j \in 1..Len(grp) |-> t[grp[j]][col]], w, GroupPos(t, i))

\* lines 15-24 of weighted_average
WeightedAverage(t, col_price, colname_new, window_length) ==
  LET name == colname_new \o ToString(window_length)
      t1   == [i \in 1..Len(t) |-> SetCol(t[i], "weighted_price", t[i][col_price] * t[i].volume)]
      t2   == SortValues(t1, [i \in 1..Len(t1) |-> <<t1[i].timestamp>>])
      t3   == [i \in 1..Len(t2) |->
                 SetCol(t2[i], "nominator", GroupRollingSum(t2, "weighted_price", window_length, i))]
      t4   == [i \in 1..Len(t3) |->
                 SetCol(t3[i], "denominator", GroupRollingSum(t3, "volume", window_length, i))]
      t5   == [i \in 1..Len(t4) |->
                 SetCol(t4[i], name, FDiv(Num(t4[i].nominator), Num(t4[i].denominator)))]
  IN  [i \in 1..Len(t5) |-> DropCols(t5[i], {"weighted_price", "nominator", "denominator"})]

\* weighted_average(df, 'price', 'avg_price_', window_length = w)
WeightedAverageCall ==
  /\ pc = "ready"
  /\ \E m \in 0..MaxAvgBars, o \in 0..MaxAvgOtherBars, w \in 1..MaxAvgWindow,
        rev \in BOOLEAN, extra \in SUBSET CallerCols :
     \E p \in [1..m -> PriceValues], v \in [1..m -> VolumeValues],
        q \in [1..o -> PriceValues], u \in [1..o -> VolumeValues] :
       LET byCoin == AvgBars("BTC", m, p, v, extra) \o AvgBars("ETH", o, q, u, extra)
           t == IF rev THEN Reverse(byCoin) ELSE byCoin
       IN  /\ call' = [fn |-> "weighted_average", df |-> t, columns |-> {"timestamp", "coin", "price", "volume"} \cup extra,
                       col_price |-> "price", colname_new |-> "avg_price_",
                       window_length |-> w]
           /\ df' = WeightedAverage(t, "price", "avg_price_", w)
           /\ pc' = "done"
  /\ UNCHANGED df_cluster

NextAverage == WeightedAverageCall

SpecAverage == Init /\ [][NextAverage]_vars

(* C7: weighted_average leaves price and volume of every row of the        *)
(* caller's table unchanged, and the table it returns has exactly the      *)
(* caller's columns plus the one new column colname_new + window_length:   *)
(* no scratch column remains, and no column the caller's table already had *)
(* is overwritten or removed.                                              *)
C7_OnlyTheNewColumnChanges ==
  (pc = "done" /\ call.fn = "weighted_average") =>
    LET name == call.colname_new \o ToString(call.window_length)
    IN  /\ Len(df) = Len(call.df)
        /\ \A i \in 1..Len(call.df) :
             \E j \in 1..Len(df) :
               /\ df[j].timestamp = call.df[i].timestamp
               /\ df[j].coin = call.df[i].coin
               /\ df[j].price = call.df[i].price
               /\ df[j].volume = call.df[i].volume
               /\ DOMAIN df[j] = call.columns \cup {name}
               /\ \A c \in call.columns : df[j][c] = call.df[i][c]

---------------------------------------------------------------------------
(* a2_load_crypto_news.CryptoNewsLoader.prepare_crypto_news                *)
(*                                                                         *)
(* An article as fetch_news returns it, with the polarity calculate_       *)
(* sentiment gives its abstract: [coin, published_day, published_hour,     *)
(* title, abstract_sentiment].  Days are numbered 1, 2, ...: the code      *)
(* holds them as 'YYYY-MM-DD' strings, which order as the days do.  An     *)
(* article whose date could not be parsed has published_hour = -1.         *)

\* range(24), line 105
HoursPerDay == 24
\* the windows of lines 153-156
NewsWindows == <<3, 6, 12, 24>>
\* the coins, in the order groupby sorts their names
NewsCoins == <<"Bitcoin", "Ether">>

\* bounds of the articles handed to prepare_crypto_news
MaxArticles == 2
MaxNewsDay == 2
ArticleHours == {-1, 0, 23}
Polarities == {-1, 1}
Titles == {"a"}

CoinOrd(c) == CHOOSE i \in 1..Len(NewsCoins) : NewsCoins[i] = c

RECURSIVE SumSentiment(_)
SumSentiment(s) == IF s = <<>> THEN 0 ELSE Head(s).abstract_sentiment + SumSentiment(Tail(s))

\* lines 141-150: the articles with a parsed date, without exact duplicates,
\* counted and summed per (coin, day, hour); fillna(0) finds nothing to fill
AggregateNews(all_news) ==
  LET kept  == Unique(SelectSeq(all_news, LAMBDA a : a.published_hour > -1))
      cells == {<<kept[i].coin, kept[i].published_day, kept[i].published_hour>> :
                  i \in 1..Len(kept)}
  IN  Eval([x \in cells |->
         LET of_x == SelectSeq(kept, LAMBDA a : <<a.coin, a.published_day, a.published_hour>> = x)
         IN  [news_count |-> Len(of_x), news_sentiment |-> SumSentiment(of_x)]])

\* lines 100-117, enlarge_dataframe: the grid of every coin of the table,
\* every day from the first to the last day of the table and every hour,
\* left-joined with the table; a grid cell without a row in the table gets
\* null for news_count and news_sentiment
EnlargeDataframe(agg) ==
  LET days   == {x[2] : x \in DOMAIN agg}
      lo     == CHOOSE d \in days : \A e \in days : d <= e
      hi     == CHOOSE d \in days : \A e \in days : e <= d
      ndays  == hi - lo + 1
      coins  == SelectSeq(NewsCoins, LAMBDA c : \E x \in DOMAIN agg : x[1] = c)
  IN  Eval([i \in 1..(Len(coins) * ndays * HoursPerDay) |->
         LET c == coins[((i - 1) \div (ndays * HoursPerDay)) + 1]
             d == lo + (((i - 1) \div HoursPerDay) % ndays)
             h == (i - 1) % HoursPerDay
             x == <<c, d, h>>
         IN  [coin |-> c, published_day |-> d, published_hour |-> h,
              news_count |-> IF x \in DOMAIN agg THEN Num(agg[x].news_count) ELSE NaN,
              news_sentiment |-> IF x \in DOMAIN agg THEN Num(agg[x].news_sentiment) ELSE NaN]])

\* d.rolling(window = w, min_periods = 1).sum() at place k of the series s of
\* floats: the sum of the non-null cells among the up to w cells ending at k,
\* null when fewer than min_periods = 1 of them are non-null
RollingSumSkipNa(s, w, k) ==
  LET lo   == IF k - w + 1 < 1 THEN 1 ELSE k - w + 1
      cell(j) == IF IsNull(s[j]) THEN Num(0) ELSE s[j]
      sum[j \in (lo - 1)..k] == IF j < lo THEN Num(0) ELSE FAdd(sum[j - 1], cell(j))
  IN  IF \A j \in lo..k : IsNull(s[j]) THEN NaN ELSE sum[k]

\* groupby('coin')[col]: for each coin of the sorted table, the cells of its
\* rows in table order
GroupSeries(sorted, col) ==
  Eval([c \in {sorted[i].coin : i \in 1..Len(sorted)} |->
          LET grp == SelectSeq([j \in 1..Len(sorted) |-> j], LAMBDA j : sorted[j].coin = c)
          IN  [j \in 1..Len(grp) |-> sorted[grp[j]][col]]])

\* lines 124-127: each row gets the rolling sums of its coin's series
RollingColumns(sorted, w, counts, sentiments) ==
  Eval([i \in 1..Len(sorted) |->
         SetCol(SetCol(sorted[i],
           "news_count_" \o ToString(w),
             RollingSumSkipNa(counts[sorted[i].coin], w, GroupPos(sorted, i))),
           "news_sentiment_" \o ToString(w),
             RollingSumSkipNa(sentiments[sorted[i].coin], w, GroupPos(sorted, i)))])

\* lines 122-127 on the sorted table
RollingSorted(sorted, w) ==
  RollingColumns(sorted, w, GroupSeries(sorted, "news_count"),
                 GroupSeries(sorted, "news_sentiment"))

\* line 121: the table sorted by coin, day and hour
SortNews(t) ==
  SortValues(t, [i \in 1..Len(t) |->
                   <<CoinOrd(t[i].coin), t[i].published_day, t[i].published_hour>>])

\* lines 119-128, rolling_count_sum: the table sorted by coin, day and hour,
\* with the rolling sums of news_count and news_sentiment per coin
RollingCountSum(t, w) == RollingSorted(SortNews(t), w)

RECURSIVE RollingAll(_, _)
\* lines 153-156: rolling_count_sum for each window in turn
RollingAll(t, ws) ==
  IF ws = <<>> THEN t ELSE RollingAll(RollingCountSum(t, Head(ws)), Tail(ws))

NewsArticle(c, d, h, ttl, pol) ==
  [coin |-> c, published_day |-> d, published_hour |-> h, title |-> ttl,
   abstract_sentiment |-> pol]

HasParsedDate(all_news) == \E i \in 1..Len(all_news) : all_news[i].published_hour > -1

\* prepare_crypto_news when at least one article has a parsed date
PrepareCryptoNews ==
  /\ pc = "ready"
  /\ \E m \in 1..MaxArticles :
     \E c \in [1..m -> Range(NewsCoins)], d \in [1..m -> 1..MaxNewsDay],
        h \in [1..m -> ArticleHours], ttl \in [1..m -> Titles], pol \in [1..m -> Polarities] :
       LET all_news == Eval([i \in 1..m |-> NewsArticle(c[i], d[i], h[i], ttl[i], pol[i])])
       IN  /\ HasParsedDate(all_news)
           /\ call' = [fn |-> "prepare_crypto_news", all_news |-> all_news]
           /\ df' = RollingAll(EnlargeDataframe(AggregateNews(all_news)), NewsWindows)
           /\ pc' = "done"
  /\ UNCHANGED df_cluster

\* prepare_crypto_news when no article has a parsed date: the table is empty
\* after line 141 (without any article it has no column published_hour),
\* the first and last day are undefined and pd.date_range (line 104) raises
PrepareCryptoNewsNoArticles ==
  /\ pc = "ready"
  /\ \E m \in 0..MaxArticles :
     \E c \in [1..m -> Range(NewsCoins)], d \in [1..m -> 1..MaxNewsDay],
        ttl \in [1..m -> Titles], pol \in [1..m -> Polarities] :
       /\ call' = [fn |-> "prepare_crypto_news",
                   all_news |-> [i \in 1..m |-> NewsArticle(c[i], d[i], -1, ttl[i], pol[i])]]
       /\ pc' = "raised"
  /\ UNCHANGED <<df, df_cluster>>

NextNews == PrepareCryptoNews \/ PrepareCryptoNewsNoArticles

SpecNews == Init /\ [][NextNews]_vars

\* the articles of the call that have a parsed date, their coins and days
ParsedNews == SelectSeq(call.all_news, LAMBDA a : a.published_hour > -1)
ParsedCoins == {ParsedNews[i].coin : i \in 1..Len(ParsedNews)}
ParsedDays  == {ParsedNews[i].published_day : i \in 1..Len(ParsedNews)}
GridDays ==
  {d \in 1..MaxNewsDay : (\E e \in ParsedDays : e <= d) /\ (\E e \in ParsedDays : d <= e)}
HasArticle(r) ==
  \E i \in 1..Len(ParsedNews) :
    /\ ParsedNews[i].coin = r.coin
    /\ ParsedNews[i].published_day = r.published_day
    /\ ParsedNews[i].published_hour = r.published_hour

\* the grid of the returned table: one row per (coin, day, hour), no other
NewsGridComplete ==
  /\ Len(df) = Cardinality(ParsedCoins) * Cardinality(GridDays) * HoursPerDay
  /\ \A c \in ParsedCoins, d \in GridDays, h \in 0..(HoursPerDay - 1) :
       Cardinality({i \in 1..Len(df) :
                      df[i].coin = c /\ df[i].published_day = d /\ df[i].published_hour = h}) = 1

(* C2: the table prepare_crypto_news returns holds exactly one row for     *)
(* every (coin of the input, day from the first to the last day, hour      *)
(* 0..23) and no other row, and in every row whose (coin, day, hour) had   *)
(* no article news_count and news_sentiment are 0, not null.               *)
C2_GridCompleteAndZeroFilled ==
  (pc = "done" /\ call.fn = "prepare_crypto_news") =>
    /\ NewsGridComplete
    /\ \A i \in 1..Len(df) :
         ~HasArticle(df[i]) => (df[i].news_count = Num(0) /\ df[i].news_sentiment = Num(0))

\* the place of a grid row in the (day, hour) order of its coin
HourIndex(r) == r.published_day * HoursPerDay + r.published_hour

\* the rows of the backward window of w cells ending at row i, same coin
BackwardWindow(i, w) ==
  {j \in 1..Len(df) :
     /\ df[j].coin = df[i].coin
     /\ HourIndex(df[j]) <= HourIndex(df[i])
     /\ HourIndex(df[j]) > HourIndex(df[i]) - w}

RECURSIVE SumCells(_, _)
\* the sum of column col over the rows S of df, a null cell counting as 0
SumCells(S, col) ==
  IF S = {} THEN Num(0)
  ELSE LET j == CHOOSE x \in S : TRUE
       IN  FAdd(IF IsNull(df[j][col]) THEN Num(0) ELSE df[j][col], SumCells(S \ {j}, col))

(* C3: for every grid cell and every window w in {3, 6, 12, 24},           *)
(* news_count_w and news_sentiment_w of the cell are the sums of           *)
(* news_count and news_sentiment over the cell and the up to w-1 cells     *)
(* before it in (day, hour) order of the same coin, a cell without an      *)
(* article contributing 0; a window without any article yields 0.          *)
C3_RollingSumsOverWindow ==
  (pc = "done" /\ call.fn = "prepare_crypto_news") =>
    \A i \in 1..Len(df), k \in 1..Len(NewsWindows) :
      LET w == NewsWindows[k]
      IN  /\ df[i]["news_count_" \o ToString(w)]
               = SumCells(BackwardWindow(i, w), "news_count")
          /\ df[i]["news_sentiment_" \o ToString(w)]
               = SumCells(BackwardWindow(i, w), "news_sentiment")

---------------------------------------------------------------------------
(* a1_load_crypto_prices.CryptoPriceLoader.prep_ohlcv_df                   *)
(*                                                                         *)
(* A candle as fetch_all_ohlcv returns it: [timestamp, open, high, low,    *)
(* close, volume] with integer cells.  The model counts timestamps in      *)
(* hours since the epoch (the code holds milliseconds), so that            *)
(* day = timestamp \div 24 and hour = timestamp % 24; the epoch was a      *)
(* Thursday, weekday 3 of dt.weekday.                                      *)

EpochWeekday == 3

\* the horizons and windows of lines 102, 106, 110 that a table of the
\* model's length can fill; the longer ones (up to 336) give columns of NaN
ChangeHorizons == <<1, 3, 6>>
FutureHorizons == <<3, 6>>
VolumeWindows  == <<6>>

\* the columns line 120 selects beside the ones lines 102-116 add
SelectedColumns == {"coin", "timestamp", "price", "volume", "volume_usd", "weekday", "day", "hour"}

\* grouping keys: the default of basic_prep_ohlcv_df, by hour of the day,
\* and one bar per candle
AggLevels ==
  {<<"coin", "weekday", "day">>, <<"coin", "hour">>,
   <<"coin", "timestamp", "weekday", "day", "hour">>}

\* bounds of the candles handed to prep_ohlcv_df
MaxCandles == 7
\* (open, high, low, close, volume) of a candle: flat at 1 without and with
\* volume, or rising from 1 to 2 on a volume of 2
CandleKinds == {<<1, 1, 1, 1, 0>>, <<1, 1, 1, 1, 1>>, <<1, 2, 1, 2, 2>>}

Candle(ts, kind) ==
  [timestamp |-> ts, open |-> kind[1], high |-> kind[2], low |-> kind[3],
   close |-> kind[4], volume |-> kind[5]]

\* the candle as a table row whose prices are left unweighted
CandleRowUnweighted(c, coin_name) ==
  [timestamp |-> c.timestamp, coin |-> coin_name,
   weekday |-> ((c.timestamp \div 24) + EpochWeekday) % 7,
   day |-> c.timestamp \div 24, hour |-> c.timestamp % 24,
   open |-> c.open, high |-> c.high, low |-> c.low,
   close |-> c.close, volume |-> c.volume]

\* lines 66-74: the candle as a table row, its prices weighted by its volume
CandleRow(c, coin_name) ==
  [timestamp |-> c.timestamp, coin |-> coin_name,
   weekday |-> ((c.timestamp \div 24) + EpochWeekday) % 7,
   day |-> c.timestamp \div 24, hour |-> c.timestamp % 24,
   open |-> c.open * c.volume, high |-> c.high * c.volume, low |-> c.low * c.volume,
   close |-> c.close * c.volume, volume |-> c.volume]

\* the group key of a row; the coin is the same in every row of a call
GroupKey(r, agg_level) ==
  [k \in 1..Len(agg_level) |-> IF agg_level[k] = "coin" THEN 0 ELSE r[agg_level[k]]]

RECURSIVE SumCol(_, _)
SumCol(rows, col) == IF rows = <<>> THEN 0 ELSE Head(rows)[col] + SumCol(Tail(rows), col)

\* line 76: groupby(agg_level, as_index = False)[[...]].sum(): one row per key
\* in ascending order of the keys, holding the key columns and the five sums
GroupBySum(rows, agg_level) ==
  LET keys   == Unique([i \in 1..Len(rows) |-> GroupKey(rows[i], agg_level)])
      sorted == SortValues(keys, keys)
  IN  Eval([g \in 1..Len(sorted) |->
         LET of_g  == SelectSeq(rows, LAMBDA r : GroupKey(r, agg_level) = sorted[g])
             first == of_g[1]
         IN  [c \in Range(agg_level) \cup {"open", "high", "low", "close", "volume"} |->
                IF c \in Range(agg_level) THEN first[c] ELSE SumCol(of_g, c)]])

\* line 82, x.mean() of the two cells of a row: Series.mean leaves null
\* cells out and is null when both are null
MeanSkipNa(a, b) ==
  CASE IsNull(a) /\ IsNull(b) -> NaN
    [] IsNull(a)              -> b
    [] IsNull(b)              -> a
    [] OTHER                  -> FDiv(FAdd(a, b), Num(2))

\* lines 78-84 on one row: the volume-weighted means, price and volume_usd
BarRow(r) ==
  LET o == FDiv(Num(r.open),  Num(r.volume))
      h == FDiv(Num(r.high),  Num(r.volume))
      l == FDiv(Num(r.low),   Num(r.volume))
      c == FDiv(Num(r.close), Num(r.volume))
      price == MeanSkipNa(o, c)
  IN  Eval([x \in (DOMAIN r) \cup {"price", "volume_usd"} |->
         CASE x = "open"       -> o
           [] x = "high"       -> h
           [] x = "low"        -> l
           [] x = "close"      -> c
           [] x = "price"      -> price
           [] x = "volume_usd" -> FMul(Num(r.volume), price)
           [] OTHER            -> r[x]])

\* lines 65-86, basic_prep_ohlcv_df
BasicPrepOhlcvDf(fetched_ohlcv, coin_name, agg_level) ==
  LET rows == Eval([i \in 1..Len(fetched_ohlcv) |-> CandleRow(fetched_ohlcv[i], coin_name)])
      bars == GroupBySum(rows, agg_level)
  IN  Eval([i \in 1..Len(bars) |-> BarRow(bars[i])])

\* Series.shift(k): the value k rows earlier (later for k < 0), NaN outside
Shift(s, k) == Eval([i \in 1..Len(s) |-> IF i - k \in 1..Len(s) THEN s[i - k] ELSE NaN])

RECURSIVE FFill(_)
\* Series.ffill(): a null cell takes the last non-null value before it
FFill(s) ==
  IF s = <<>> THEN <<>>
  ELSE LET f == FFill(SubSeq(s, 1, Len(s) - 1))
           x == s[Len(s)]
       IN  Append(f, IF IsNull(x) /\ f # <<>> THEN f[Len(f)] ELSE x)

\* Series.pct_change(periods = h, fill_method = None): s / s.shift(h) - 1
PctChange(s, h) ==
  LET before == Shift(s, h)
  IN  Eval([i \in 1..Len(s) |-> FSub(FDiv(s[i], before[i]), Num(1))])

\* the forward change taken over one row instead of h
FutureChangeOneRow(price, h) ==
  LET pct == PctChange(Shift(price, -h), 1)
  IN  Eval([i \in 1..Len(price) |-> FMul(pct[i], Num(100))])

\* line 106: df['price'].shift(-h).pct_change(periods = h, fill_method = None) * 100
FutureChange(price, h) ==
  LET pct == PctChange(Shift(price, -h), h)
  IN  Eval([i \in 1..Len(price) |-> FMul(pct[i], Num(100))])

\* line 103: df['price'].pct_change(periods = h) * 100, whose default
\* fill_method = 'pad' forward-fills the null prices first (pandas before 3)
Change(price, h) ==
  LET pct == PctChange(FFill(price), h)
  IN  Eval([i \in 1..Len(price) |-> FMul(pct[i], Num(100))])

\* squares of integers summed over s[lo..hi]
RECURSIVE SeqSumSq(_, _, _)
SeqSumSq(s, lo, hi) == IF lo > hi THEN 0 ELSE s[hi] * s[hi] + SeqSumSq(s, lo, hi - 1)

\* the non-negative square root of the float x >= 0, kept as a root: k = "sqrt"
\* stands for sqrt(n/d), n > 0
SqrtOf(x) == IF x.k = "fin" /\ x.n > 0 THEN [k |-> "sqrt", n |-> x.n, d |-> x.d] ELSE x

\* a rolling mean over whatever rows the window has (min_periods = 1)
RollingMeanPartial(s, w, k) ==
  LET lo == IF k - w + 1 < 1 THEN 1 ELSE k - w + 1
  IN  Fin(SeqSum(s, lo, k), k - lo + 1)

\* line 111: rolling(w).mean() at place k of the integer series s; min_periods
\* defaults to the window, so the first w-1 places are NaN
RollingMean(s, w, k) == IF k < w THEN NaN ELSE Fin(SeqSum(s, k - w + 1, k), w)

\* line 112: rolling(w).std() at place k, the sample standard deviation
\* (ddof = 1) of the w values ending at k; NaN for w = 1
RollingStd(s, w, k) ==
  IF k < w \/ w < 2 THEN NaN
  ELSE LET sum == SeqSum(s, k - w + 1, k)
           sq  == SeqSumSq(s, k - w + 1, k)
       IN  SqrtOf(Fin(w * sq - sum * sum, w * (w - 1)))

\* line 113: std / mean, for a mean >= 0
RootDiv(std, mean) ==
  CASE IsNull(std) \/ IsNull(mean) -> NaN
    [] mean.n = 0                  -> IF std.n = 0 THEN NaN ELSE PInf
    [] std.k = "sqrt"              -> SqrtOf(FDiv(FDiv(Fin(std.n, std.d), mean), mean))
    [] OTHER                       -> FDiv(std, mean)

\* df[col]
Column(t, col) == Eval([i \in 1..Len(t) |-> t[i][col]])

RECURSIVE AddChanges(_, _)
\* lines 102-103
AddChanges(t, hs) ==
  IF hs = <<>> THEN t
  ELSE LET col == Change(Column(t, "price"), Head(hs))
       IN  AddChanges(Eval([i \in 1..Len(t) |->
                              SetCol(t[i], "change_" \o ToString(Head(hs)) \o "h", col[i])]),
                      Tail(hs))

RECURSIVE AddFutureChanges(_, _)
\* lines 105-106
AddFutureChanges(t, hs) ==
  IF hs = <<>> THEN t
  ELSE LET col == FutureChange(Column(t, "price"), Head(hs))
       IN  AddFutureChanges(Eval([i \in 1..Len(t) |->
                              SetCol(t[i], "future_change_" \o ToString(Head(hs)) \o "h", col[i])]),
                            Tail(hs))

RECURSIVE AddVolumes(_, _)
\* lines 109-113
AddVolumes(t, ws) ==
  IF ws = <<>> THEN t
  ELSE LET w   == Head(ws)
           vol == Column(t, "volume")
       IN  AddVolumes(Eval([i \in 1..Len(t) |->
                         SetCol(SetCol(t[i],
                           "avg_volume_" \o ToString(w) \o "h", RollingMean(vol, w, i)),
                           "volatility_volume_" \o ToString(w) \o "h",
                             RootDiv(RollingStd(vol, w, i), RollingMean(vol, w, i)))]),
                      Tail(ws))

\* lines 99-113: the table when line 120 is reached
PrepColumns(fetched_ohlcv, coin_name, agg_level) ==
  AddVolumes(AddFutureChanges(AddChanges(
    BasicPrepOhlcvDf(fetched_ohlcv, coin_name, agg_level), ChangeHorizons), FutureHorizons),
    VolumeWindows)

\* the candles of one fetch: one per hour from hour 0 on
Fetched(m, kind) == Eval([i \in 1..m |-> Candle(i - 1, kind[i])])

\* the hours at which a fetch may hold a candle: two on a Thursday (day 0),
\* one on the Friday after, two on the Monday after (day 4)
CandleHours == {0, 1, 24, 96, 97}

\* the elements of a set of integers in ascending order
Ascending(S) ==
  Eval([i \in 1..Cardinality(S) |-> CHOOSE x \in S : Cardinality({y \in S : y < x}) = i - 1])

\* the candles of one fetch, in the order of time in which the exchange
\* returns them: one at each hour of hours, of the kind given for that hour
FetchedAt(hours, kind) ==
  Eval([i \in 1..Cardinality(hours) |-> Candle(Ascending(hours)[i], kind[Ascending(hours)[i]])])

\* line 120 finds every column it selects
SelectsExisting(agg_level) == SelectedColumns \ {"price", "volume", "volume_usd"} \subseteq Range(agg_level)

\* lines 120-126: the selection keeps every column of the table but the four
\* candle prices
SelectColumns(t) == Eval([i \in 1..Len(t) |-> DropCols(t[i], {"open", "high", "low", "close"})])

\* prep_ohlcv_df with a grouping key that holds every column line 120 selects
PrepOhlcvDf ==
  /\ pc = "ready"
  /\ \E m \in 0..MaxCandles, agg_level \in AggLevels :
     /\ SelectsExisting(agg_level)
     /\ \E kind \in [1..m -> CandleKinds] :
          LET t == PrepColumns(Fetched(m, kind), "BTC/EUR", agg_level)
          IN  /\ call' = [fn |-> "prep_ohlcv_df", fetched_ohlcv |-> Fetched(m, kind),
                          coin_name |-> "BTC/EUR", agg_level |-> agg_level]
              /\ df' = SelectColumns(t)
              /\ pc' = "done"
  /\ UNCHANGED df_cluster

\* prep_ohlcv_df with a grouping key that lacks 'timestamp' or 'hour': the
\* grouped table has only the key columns and the sums, and the selection of
\* line 120 raises KeyError; df is the table as it stood at that line
PrepOhlcvDfKeyError ==
  /\ pc = "ready"
  /\ \E hours \in SUBSET CandleHours, agg_level \in AggLevels :
     /\ ~SelectsExisting(agg_level)
     /\ \E kind \in [hours -> CandleKinds] :
          /\ call' = [fn |-> "prep_ohlcv_df", fetched_ohlcv |-> FetchedAt(hours, kind),
                      coin_name |-> "BTC/EUR", agg_level |-> agg_level]
          /\ df' = PrepColumns(FetchedAt(hours, kind), "BTC/EUR", agg_level)
          /\ pc' = "raised"
  /\ UNCHANGED df_cluster

NextPrices == PrepOhlcvDf \/ PrepOhlcvDfKeyError

SpecPrices == Init /\ [][NextPrices]_vars

\* prep_ohlcv_df has returned a table
PrepReturned == pc = "done" /\ call.fn = "prep_ohlcv_df"

FutureChangeCol(h) == "future_change_" \o ToString(h) \o "h"
AvgVolumeCol(w) == "avg_volume_" \o ToString(w) \o "h"
VolatilityVolumeCol(w) == "volatility_volume_" \o ToString(w) \o "h"

\* (price[t+h] - price[t]) / price[t] * 100 on the rows of df
ForwardChange(t, h) ==
  FMul(FDiv(FSub(df[t + h].price, df[t].price), df[t].price), Num(100))

\* C8 as stated: at every row t that has a row t+h, future_change_h is
\* (price[t+h] - price[t]) / price[t] * 100, and it is NaN in the last h rows.
C8_ForwardChangeWhereverRowExists ==
  PrepReturned =>
    \A h \in Range(FutureHorizons) : \A t \in 1..Len(df) :
      IF t + h <= Len(df)
      THEN df[t][FutureChangeCol(h)] = ForwardChange(t, h)
      ELSE IsNull(df[t][FutureChangeCol(h)])

\* C8, amended: future_change_h is (price[t+h] - price[t]) / price[t] * 100 at
\* every row t that has both a row t-h and a row t+h; it is NaN in the first h
\* and in the last h rows.
C8_ForwardChangeBetweenTheEdges ==
  PrepReturned =>
    \A h \in Range(FutureHorizons) : \A t \in 1..Len(df) :
      IF h < t /\ t + h <= Len(df)
      THEN df[t][FutureChangeCol(h)] = ForwardChange(t, h)
      ELSE IsNull(df[t][FutureChangeCol(h)])

\* a returned table with a row between the edges whose price differs from the
\* price h rows later, and a row among the first h with prices at t and t+h
C8_Witness_ChangeBetweenTheEdges ==
  /\ PrepReturned
  /\ \E h \in Range(FutureHorizons) :
       /\ \E t \in (h + 1)..(Len(df) - h) :
            /\ IsFinite(df[t][FutureChangeCol(h)])
            /\ df[t][FutureChangeCol(h)].n # 0
       /\ \E t \in 1..h :
            /\ t + h <= Len(df)
            /\ IsFinite(ForwardChange(t, h))

\* the volumes of the w rows of df ending at row t, their sum, and the sum of
\* the squares of w * volume - sum
WindowVolume(t, w, j) == df[t - w + j].volume
RECURSIVE WindowSum(_, _, _)
WindowSum(t, w, j) == IF j = 0 THEN 0 ELSE WindowVolume(t, w, j) + WindowSum(t, w, j - 1)
RECURSIVE WindowDeviation(_, _, _)
WindowDeviation(t, w, j) ==
  IF j = 0 THEN 0
  ELSE (w * WindowVolume(t, w, j) - WindowSum(t, w, w)) * (w * WindowVolume(t, w, j) - WindowSum(t, w, w))
         + WindowDeviation(t, w, j - 1)

\* the square of a float that may be kept as a root
Squared(x) == IF x.k = "sqrt" THEN Fin(x.n, x.d) ELSE FMul(x, x)

\* volatility_volume_w at row t >= w is the sample standard deviation of the
\* window divided by its mean: its square is
\* sum((w * x - S)^2) / ((w - 1) * S^2), S the sum of the window
IsStdOverMean(t, w) ==
  LET v == df[t][VolatilityVolumeCol(w)]
      S == WindowSum(t, w, w)
  IN  /\ df[t][AvgVolumeCol(w)] = Fin(S, w)
      /\ IF S = 0 THEN IsNull(v)
         ELSE /\ v.k \in {"fin", "sqrt"}
              /\ Squared(v) = Fin(WindowDeviation(t, w, w), (w - 1) * S * S)

\* C9 as stated: avg_volume_w and volatility_volume_w are NaN in exactly the
\* first w-1 rows and non-null in every later row, whatever the volumes are.
C9_NullInExactlyTheFirstRows ==
  PrepReturned =>
    \A w \in Range(VolumeWindows) : \A t \in 1..Len(df) :
      /\ IsNull(df[t][AvgVolumeCol(w)]) <=> t < w
      /\ IsNull(df[t][VolatilityVolumeCol(w)]) <=> t < w

\* C9, amended: avg_volume_w is NaN in exactly the first w-1 rows;
\* volatility_volume_w is NaN in the first w-1 rows and in every later row
\* whose window holds only zero volumes (0 / 0), and in every other row it is
\* the rolling standard deviation divided by the rolling mean of the window.
C9_NullInFirstRowsAndZeroWindows ==
  PrepReturned =>
    \A w \in Range(VolumeWindows) : \A t \in 1..Len(df) :
      IF t < w
      THEN IsNull(df[t][AvgVolumeCol(w)]) /\ IsNull(df[t][VolatilityVolumeCol(w)])
      ELSE /\ ~IsNull(df[t][AvgVolumeCol(w)])
           /\ IsNull(df[t][VolatilityVolumeCol(w)]) <=> WindowSum(t, w, w) = 0
           /\ IsStdOverMean(t, w)

\* a returned table with a full window of zero volumes followed by a full
\* window whose volumes differ
C9_Witness_ZeroWindowThenVolume ==
  /\ PrepReturned
  /\ \E w \in Range(VolumeWindows) : \E t \in w..(Len(df) - 1) :
       /\ WindowSum(t, w, w) = 0
       /\ IsNull(df[t][VolatilityVolumeCol(w)])
       /\ df[t + 1][VolatilityVolumeCol(w)].k = "sqrt"

---------------------------------------------------------------------------
(* a1_load_crypto_prices.CryptoPriceLoader.basic_prep_ohlcv_df, called on  *)
(* its own (fetch_prepare_crypto_prices with prepare = False).             *)

\* (open, high, low, close, volume) of a candle handed to basic_prep_ohlcv_df
BarCandleKinds == CandleKinds \cup {<<3, 3, 1, 1, 1>>}

\* basic_prep_ohlcv_df(fetched_ohlcv, coin_name, agg_level)
BasicPrepOhlcvDfCall ==
  /\ pc = "ready"
  /\ \E hours \in SUBSET CandleHours, agg_level \in AggLevels :
     \E kind \in [hours -> BarCandleKinds] :
       /\ call' = [fn |-> "basic_prep_ohlcv_df", fetched_ohlcv |-> FetchedAt(hours, kind),
                   coin_name |-> "BTC/EUR", agg_level |-> agg_level]
       /\ df' = BasicPrepOhlcvDf(FetchedAt(hours, kind), "BTC/EUR", agg_level)
       /\ pc' = "done"
  /\ UNCHANGED df_cluster

NextBars == BasicPrepOhlcvDfCall

SpecBars == Init /\ [][NextBars]_vars

\* basic_prep_ohlcv_df has returned a table
BasicPrepReturned == pc = "done" /\ call.fn = "basic_prep_ohlcv_df"

\* the value a candle has in a key column
KeyValue(c, k) ==
  CASE k = "coin"      -> call.coin_name
    [] k = "timestamp" -> c.timestamp
    [] k = "weekday"   -> ((c.timestamp \div 24) + EpochWeekday) % 7
    [] k = "day"       -> c.timestamp \div 24
    [] k = "hour"      -> c.timestamp % 24

\* candle c of the call belongs to the group of row r
InGroup(c, r) == \A k \in Range(call.agg_level) : KeyValue(c, k) = r[k]

\* the candles of the call in the group of row r, as places in the fetch
Members(r) == {i \in 1..Len(call.fetched_ohlcv) : InGroup(call.fetched_ohlcv[i], r)}

RECURSIVE VolumeOf(_, _)
\* the summed volume of the candles at the places 1..i that are in M
VolumeOf(M, i) ==
  IF i = 0 THEN 0
  ELSE (IF i \in M THEN call.fetched_ohlcv[i].volume ELSE 0) + VolumeOf(M, i - 1)

RECURSIVE WeightedOf(_, _, _)
\* the sum of value * volume of column col over the same candles
WeightedOf(M, col, i) ==
  IF i = 0 THEN 0
  ELSE (IF i \in M THEN call.fetched_ohlcv[i][col] * call.fetched_ohlcv[i].volume ELSE 0)
         + WeightedOf(M, col, i - 1)

\* row r holds the volume-weighted means of its group
IsWeightedBar(r) ==
  LET n == Len(call.fetched_ohlcv)
      V == VolumeOf(Members(r), n)
  IN  /\ Members(r) # {}
      /\ r.volume = V
      /\ IF V > 0
         THEN /\ r.open  = Fin(WeightedOf(Members(r), "open", n), V)
              /\ r.close = Fin(WeightedOf(Members(r), "close", n), V)
              /\ r.price = FDiv(FAdd(r.open, r.close), Num(2))
              /\ r.volume_usd = FMul(Num(V), r.price)
         ELSE IsNull(r.price)

PrepComputed == call.fn = "prep_ohlcv_df" /\ pc \in {"done", "raised"}

ChangeCol(h) == "change_" \o ToString(h) \o "h"

\* the hour of the earliest candle in the bar of row r
BarStart(r) ==
  CHOOSE x \in {call.fetched_ohlcv[i].timestamp : i \in Members(r)} :
    \A i \in Members(r) : x <= call.fetched_ohlcv[i].timestamp

\* the bars stand in ascending order of time
BarsAscendInTime == \A j \in 1..(Len(df) - 1) : BarStart(df[j]) < BarStart(df[j + 1])

\* change_h is NaN in the first h rows and, where row t and row t-h both have
\* a price, (price[t] - price[t-h]) / price[t-h] * 100
ChangesOverRows ==
  \A h \in Range(ChangeHorizons) : \A t \in 1..Len(df) :
    /\ t <= h => IsNull(df[t][ChangeCol(h)])
    /\ (t > h /\ ~IsNull(df[t].price) /\ ~IsNull(df[t - h].price)) =>
         df[t][ChangeCol(h)] =
           FMul(FDiv(FSub(df[t].price, df[t - h].price), df[t - h].price), Num(100))

\* C12: when prep_ohlcv_df has computed the change columns, under every
\* grouping key the bars stand in ascending order of time, and change_h at
\* bar t is (price[t] - price[t-h]) / price[t-h] * 100 over the bar h rows
\* before, which is an earlier bar.
C12_ChangesOverEarlierBars == PrepComputed => (BarsAscendInTime /\ ChangesOverRows)

===========================================================================
